---- MODULE Spec2Model ----
(***************************************************************************)
(* watchdogd: a small userspace watchdog daemon (src/watchdogd.c).         *)
(*                                                                         *)
(* The model follows one process from the start of main() to its end.      *)
(* The main flow is cut at every point where a signal can be taken:        *)
(* between two getopt iterations, around each system call, and between     *)
(* the return of open() and the store of its result in the global fd.      *)
(* SIGINT and SIGTERM can be delivered whenever the process is alive; a    *)
(* signal handler runs on top of the interrupted flow (hstack), and the    *)
(* main flow only steps while no handler is running.  Time is a virtual    *)
(* clock that advances only in sleep().                                    *)
(***************************************************************************)
EXTENDS Integers, Sequences, FiniteSets

VARIABLES
    pc,            \* position of the main flow
    fd,            \* global int fd (line 43)
    verbose,       \* global int verbose (line 44)
    timeout,       \* main: int timeout
    real_timeout,  \* main: int real_timeout
    period,        \* main: int period
    background,    \* main: int background
    pid,           \* main: pid_t pid, what daemonize() returned
    ret,           \* value returned by open(), before it is stored in fd
    installed,     \* signals whose disposition is wdt_magic_close
    hstack,        \* running signal handlers, innermost last
    status,        \* exit status, -1 while the process has not exited
    openHandles,   \* number of open handles the process holds on the device
    closedOnce,    \* TRUE once the process has closed a handle
    hwTimeout,     \* the driver's current timeout
    timerArmed,    \* TRUE while the hardware timer counts down
    magicWritten,  \* TRUE once the magic byte "V" reached the device
    devlog,        \* requests issued on the device, in order
    logged,        \* number of times each message was logged
    now,           \* virtual clock
    lastKickAt,    \* clock value at the last kick
    gap,           \* time between the last two kicks
    kicks,         \* number of kicks issued
    kickFailed,    \* TRUE when the last keep-alive ioctl failed
    kGiven,        \* history: a -k option was parsed
    kValue,        \* history: the value of the last -k option
    delivered,     \* history: signals delivered to the process
    caught         \* history: pc, fd, Len(devlog) when the first handler began

vars == <<pc, fd, verbose, timeout, real_timeout, period, background, pid, ret,
          installed, hstack, status, openHandles, closedOnce, hwTimeout,
          timerArmed, magicWritten, devlog, logged, now, lastKickAt, gap,
          kicks, kickFailed, kGiven, kValue, delivered, caught>>

mainVars == <<pc, fd, verbose, timeout, real_timeout, period,
              background, pid, ret, installed, kGiven, kValue>>
devVars == <<openHandles, closedOnce, hwTimeout, timerArmed, magicWritten,
            devlog>>
clockVars == <<now, lastKickAt, gap, kicks, kickFailed>>
sigVars == <<hstack, delivered, caught>>

----------------------------------------------------------------------------
(* Bounds *)

MaxArg == 2          \* -k arguments are the integers -MaxArg..MaxArg
MaxTimeout == 2      \* -w arguments and driver timeouts are 0..MaxTimeout
MaxKicks == 2        \* kicks followed in the loop

(* Program constants *)

WDT_TIMEOUT_DEFAULT == 20

\* C integer division truncates toward zero.
CDiv(a, b) ==
    IF (a >= 0) = (b > 0) THEN a \div b ELSE -((-a) \div b)

\* variant: the fallback is taken from the requested timeout
KickFromRequested == CDiv(timeout, 2)

WDT_KICK_DEFAULT == CDiv(WDT_TIMEOUT_DEFAULT, 2)

Signals == {"SIGINT", "SIGTERM"}

IntervalArgs == (-MaxArg)..MaxArg
TimeoutArgs == 0..MaxTimeout
\* open() returns the lowest descriptor the process does not use
StdStreams == {"stdin", "stdout", "stderr"}
LowestFreeFd == Cardinality(StdStreams)

Msgs == {"daemon_mode", "open_failed", "setting_timeout", "set_failed",
         "previous_timeout", "timeout_is", "get_failed", "margin_warning",
         "kick_interval", "kicking", "safe_exit", "usage", "version",
         "unrecognized"}

----------------------------------------------------------------------------
(* Logging macros *)

\* print(): the message reaches the selected sink.
print(log, msg) == [log EXCEPT ![msg] = @ + 1]

\* ERROR() and PERROR() always print.
ERROR(log, msg) == print(log, msg)

\* DEBUG() prints only in verbose mode.
DEBUG(log, msg) == IF verbose THEN print(log, msg) ELSE log

----------------------------------------------------------------------------
(* Virtual clock.  A time is wraps * 2^32 + secs seconds. *)

Time(w, s) == [wraps |-> w, secs |-> s]

\* sleep() takes an unsigned int: a negative int converts to 2^32 + p.
ToUnsigned(p) == IF p < 0 THEN Time(1, p) ELSE Time(0, p)

AddTime(t, d) == Time(t.wraps + d.wraps, t.secs + d.secs)
SubTime(t, u) == Time(t.wraps - u.wraps, t.secs - u.secs)

\* t <= n for a time t and an int n; secs stays far below 2^32 here.
TimeLeqInt(t, n) == t.wraps < 0 \/ (t.wraps = 0 /\ t.secs <= n)

----------------------------------------------------------------------------
Alive == pc \notin {"exited", "killed"}
MainRuns == Alive /\ hstack = <<>>

Init ==
    /\ pc = "getopt"
    /\ fd = -1
    /\ verbose = FALSE
    /\ timeout = WDT_TIMEOUT_DEFAULT
    /\ real_timeout = 0
    /\ period = -1
    /\ background = TRUE
    /\ pid = 0
    /\ ret = -1
    /\ installed = {}
    /\ hstack = <<>>
    /\ status = -1
    /\ openHandles = 0
    /\ closedOnce = FALSE
    /\ hwTimeout \in 0..MaxTimeout
    /\ timerArmed = FALSE
    /\ magicWritten = FALSE
    /\ devlog = <<>>
    /\ logged = [m \in Msgs |-> 0]
    /\ now = Time(0, 0)
    /\ lastKickAt = Time(0, 0)
    /\ gap = Time(0, 0)
    /\ kicks = 0
    /\ kickFailed = FALSE
    /\ kGiven = FALSE
    /\ kValue = 0
    /\ delivered = {}
    /\ caught = [at |-> "none", fd |-> -1, len |-> 0]

\* exit(code) and return from main
Exit(code) ==
    /\ pc' = "exited"
    /\ status' = code

----------------------------------------------------------------------------
(* main: option parsing, lines 147-188 *)

OptForeground ==
    /\ MainRuns /\ pc = "getopt"
    /\ background' = FALSE
    /\ UNCHANGED <<pc, fd, verbose, timeout, real_timeout, period,
                   ret, installed, kGiven, kValue, status, logged>>
    /\ UNCHANGED <<devVars, clockVars, sigVars>>
    /\ UNCHANGED pid

OptTimeout ==
    /\ MainRuns /\ pc = "getopt"
    /\ \E v \in TimeoutArgs : timeout' = v
    /\ UNCHANGED <<pc, fd, verbose, real_timeout, period, background,
                   ret, installed, kGiven, kValue, status, logged>>
    /\ UNCHANGED <<devVars, clockVars, sigVars>>
    /\ UNCHANGED pid

OptInterval ==
    /\ MainRuns /\ pc = "getopt"
    /\ \E v \in IntervalArgs :
          /\ period' = v
          /\ kValue' = v
    /\ kGiven' = TRUE
    /\ UNCHANGED <<pc, fd, verbose, timeout, real_timeout, background,
                   ret, installed, status, logged>>
    /\ UNCHANGED <<devVars, clockVars, sigVars>>
    /\ UNCHANGED pid

\* case 's' enters setup_magic_close: sigaction(SIGINT, ...)
OptSafeExit ==
    /\ MainRuns /\ pc = "getopt"
    /\ installed' = installed \cup {"SIGINT"}
    /\ pc' = "setup_term"
    /\ UNCHANGED <<fd, verbose, timeout, real_timeout, period,
                   background, ret, kGiven, kValue, status, logged>>
    /\ UNCHANGED <<devVars, clockVars, sigVars>>
    /\ UNCHANGED pid

\* setup_magic_close: sigaction(SIGTERM, ...), then back to the getopt loop
SetupTerm ==
    /\ MainRuns /\ pc = "setup_term"
    /\ installed' = installed \cup {"SIGTERM"}
    /\ pc' = "getopt"
    /\ UNCHANGED <<fd, verbose, timeout, real_timeout, period,
                   background, ret, kGiven, kValue, status, logged>>
    /\ UNCHANGED <<devVars, clockVars, sigVars>>
    /\ UNCHANGED pid

OptVersion ==
    /\ MainRuns /\ pc = "getopt"
    /\ logged' = print(logged, "version")
    /\ Exit(0)
    /\ UNCHANGED <<fd, verbose, timeout, real_timeout, period,
                   background, ret, installed, kGiven, kValue>>
    /\ UNCHANGED <<devVars, clockVars, sigVars>>
    /\ UNCHANGED pid

OptVerbose ==
    /\ MainRuns /\ pc = "getopt"
    /\ verbose' = TRUE
    /\ UNCHANGED <<pc, fd, timeout, real_timeout, period, background,
                   ret, installed, kGiven, kValue, status, logged>>
    /\ UNCHANGED <<devVars, clockVars, sigVars>>
    /\ UNCHANGED pid

OptHelp ==
    /\ MainRuns /\ pc = "getopt"
    /\ logged' = print(logged, "usage")
    /\ Exit(0)
    /\ UNCHANGED <<fd, verbose, timeout, real_timeout, period,
                   background, ret, installed, kGiven, kValue>>
    /\ UNCHANGED <<devVars, clockVars, sigVars>>
    /\ UNCHANGED pid

OptUnknown ==
    /\ MainRuns /\ pc = "getopt"
    /\ logged' = print(print(logged, "unrecognized"), "usage")
    /\ Exit(1)
    /\ UNCHANGED <<fd, verbose, timeout, real_timeout, period,
                   background, ret, installed, kGiven, kValue>>
    /\ UNCHANGED <<devVars, clockVars, sigVars>>
    /\ UNCHANGED pid

\* getopt_long returns EOF
OptEnd ==
    /\ MainRuns /\ pc = "getopt"
    /\ pc' = "background"
    /\ UNCHANGED <<fd, verbose, timeout, real_timeout, period,
                   background, ret, installed, kGiven, kValue,
                   status, logged>>
    /\ UNCHANGED <<devVars, clockVars, sigVars>>
    /\ UNCHANGED pid

----------------------------------------------------------------------------
(* main: backgrounding, lines 190-203 *)

\* What daemonize() returns in the process that is followed: negative on
\* error, positive in the parent, 0 in the daemon.
daemonize == {-1, 0, 1}

\* variant: only the error return leaves main
ExitsOnError(p) == p < 0

\* if (pid)
ExitsAfterDaemonize(p) == p # 0

Background ==
    /\ MainRuns /\ pc = "background"
    /\ IF background
       THEN /\ \E p \in daemonize :
                  /\ pid' = p
                  /\ IF ExitsAfterDaemonize(p)
                     THEN /\ Exit(IF p < 0 THEN 1 ELSE 0)
                          /\ logged' = logged
                     ELSE /\ pc' = "open"
                          /\ status' = status
                          /\ logged' = DEBUG(logged, "daemon_mode")
       ELSE /\ pc' = "open"
            /\ UNCHANGED <<pid, status, logged>>
    /\ UNCHANGED <<fd, verbose, timeout, real_timeout, period, background,
                   ret, installed, kGiven, kValue>>
    /\ UNCHANGED <<devVars, clockVars, sigVars>>

----------------------------------------------------------------------------
(* main: opening the device, lines 205-209 *)

\* open(WDT_DEVNODE, O_WRONLY) returns; its value is not yet stored in fd.
\* Opening the device starts the hardware timer.
OpenDevice ==
    /\ MainRuns /\ pc = "open"
    /\ \/ /\ ret' = LowestFreeFd
          /\ openHandles' = openHandles + 1
          /\ timerArmed' = TRUE
          /\ devlog' = Append(devlog, "open")
       \/ /\ ret' = -1
          /\ devlog' = Append(devlog, "open_failed")
          /\ UNCHANGED <<openHandles, timerArmed>>
    /\ pc' = "store_fd"
    /\ UNCHANGED <<fd, verbose, timeout, real_timeout, period,
                   background, installed, kGiven, kValue, status,
                   logged, closedOnce, hwTimeout, magicWritten>>
    /\ UNCHANGED <<clockVars, sigVars>>
    /\ UNCHANGED pid

\* fd = <value returned by open>
StoreFd ==
    /\ MainRuns /\ pc = "store_fd"
    /\ fd' = ret
    /\ pc' = "check_fd"
    /\ UNCHANGED <<verbose, timeout, real_timeout, period, background,
                   ret, installed, kGiven, kValue, status, logged>>
    /\ UNCHANGED <<devVars, clockVars, sigVars>>
    /\ UNCHANGED pid

\* variant: the test is written against 0
OpenFailedZero(v) == v = 0

\* if (fd == -1)
OpenFailed(v) == v = -1

CheckFd ==
    /\ MainRuns /\ pc = "check_fd"
    /\ IF OpenFailed(fd)
       THEN /\ logged' = ERROR(logged, "open_failed")
            /\ Exit(1)
       ELSE /\ pc' = "set_timeout"
            /\ UNCHANGED <<status, logged>>
    /\ UNCHANGED <<fd, verbose, timeout, real_timeout, period,
                   background, ret, installed, kGiven, kValue>>
    /\ UNCHANGED <<devVars, clockVars, sigVars>>
    /\ UNCHANGED pid

----------------------------------------------------------------------------
(* wdt_set_timeout(timeout), line 211 and lines 64-73.  The driver accepts *)
(* the requested value, rejects it, or adopts another value it supports.   *)

wdt_set_timeout ==
    /\ MainRuns /\ pc = "set_timeout"
    /\ \/ /\ timeout > 0
          /\ hwTimeout' = timeout
          /\ logged' = DEBUG(DEBUG(logged, "setting_timeout"),
                             "previous_timeout")
       \/ /\ hwTimeout' = hwTimeout
          /\ logged' = ERROR(DEBUG(logged, "setting_timeout"), "set_failed")
       \/ /\ \E t \in 1..MaxTimeout : hwTimeout' = t
          /\ logged' = DEBUG(DEBUG(logged, "setting_timeout"),
                             "previous_timeout")
    /\ devlog' = Append(devlog, "set")
    /\ pc' = "get_timeout"
    /\ UNCHANGED <<fd, verbose, timeout, real_timeout, period,
                   background, ret, installed, kGiven, kValue,
                   status, openHandles, closedOnce, timerArmed, magicWritten>>
    /\ UNCHANGED <<clockVars, sigVars>>
    /\ UNCHANGED pid

(* real_timeout = wdt_get_timeout(), line 213 and lines 75-86: the ioctl   *)
(* fills count and returns 0, or fails and returns -1.                     *)

wdt_get_timeout ==
    /\ MainRuns /\ pc = "get_timeout"
    /\ \E err \in {0, -1} :
          real_timeout' = IF err # 0 THEN err ELSE hwTimeout
    /\ logged' = DEBUG(logged, "timeout_is")
    /\ devlog' = Append(devlog, "get")
    /\ pc' = "margin"
    /\ UNCHANGED <<fd, verbose, timeout, period, background, ret, installed,
                   kGiven, kValue, status, openHandles,
                   closedOnce, hwTimeout, timerArmed, magicWritten>>
    /\ UNCHANGED <<clockVars, sigVars>>
    /\ UNCHANGED pid

----------------------------------------------------------------------------
(* main: margin check and period derivation, lines 214-230 *)

\* variant: strict comparison
MarginStrict(rt, p) == rt < p

\* if (real_timeout <= period)
MarginUnsafe(rt, p) == rt <= p

MarginCheck ==
    /\ MainRuns /\ pc = "margin"
    /\ logged' = IF real_timeout < 0
                  THEN ERROR(logged, "get_failed")
                  ELSE IF MarginUnsafe(real_timeout, period)
                       THEN ERROR(logged, "margin_warning")
                       ELSE logged
    /\ pc' = "derive"
    /\ UNCHANGED <<fd, verbose, timeout, real_timeout, period,
                   background, ret, installed, kGiven, kValue,
                   status>>
    /\ UNCHANGED <<devVars, clockVars, sigVars>>
    /\ UNCHANGED pid

\* variant: the half is rounded up
HalfRoundedUp(rt) == CDiv(rt + 1, 2)

\* variant: the half of the requested timeout is taken
HalfRequested(rt) == CDiv(timeout, 2)

\* period = real_timeout / 2
HalfTimeout(rt) == CDiv(rt, 2)

DerivePeriod ==
    /\ MainRuns /\ pc = "derive"
    /\ period' = IF -1 = period
                  THEN IF real_timeout < 0
                       THEN WDT_KICK_DEFAULT
                       ELSE HalfTimeout(real_timeout)
                  ELSE period
    /\ logged' = DEBUG(logged, "kick_interval")
    /\ pc' = "kick"
    /\ UNCHANGED <<fd, verbose, timeout, real_timeout, background,
                   ret, installed, kGiven, kValue, status>>
    /\ UNCHANGED <<devVars, clockVars, sigVars>>
    /\ UNCHANGED pid

----------------------------------------------------------------------------
(* main: the kick loop, lines 232-235 *)

\* wdt_kick(): the ioctl succeeds or fails; its result is not looked at.
wdt_kick ==
    /\ MainRuns /\ pc = "kick"
    /\ kicks < MaxKicks
    /\ \E ok \in BOOLEAN : kickFailed' = ~ok
    /\ logged' = DEBUG(logged, "kicking")
    /\ devlog' = Append(devlog, "kick")
    /\ kicks' = kicks + 1
    /\ gap' = SubTime(now, lastKickAt)
    /\ lastKickAt' = now
    /\ pc' = "sleep"
    /\ UNCHANGED <<fd, verbose, timeout, real_timeout, period,
                   background, ret, installed, kGiven, kValue,
                   status, openHandles, closedOnce, hwTimeout, timerArmed,
                   magicWritten, now>>
    /\ UNCHANGED sigVars
    /\ UNCHANGED pid

\* variant: the loop goes back to the open() call
LoopFromOpen == "open"

\* variant: the loop goes back to the timeout negotiation
LoopFromSetTimeout == "set_timeout"

\* the statement the loop goes back to
LoopHead == "kick"

\* sleep(period) returns after (unsigned int) period seconds
sleep ==
    /\ MainRuns /\ pc = "sleep"
    /\ now' = AddTime(now, ToUnsigned(period))
    /\ pc' = LoopHead
    /\ UNCHANGED <<fd, verbose, timeout, real_timeout, period,
                   background, ret, installed, kGiven, kValue,
                   status, logged, lastKickAt, gap, kicks, kickFailed>>
    /\ UNCHANGED <<devVars, sigVars>>
    /\ UNCHANGED pid

----------------------------------------------------------------------------
(* Signals.  sigaction() is called with an empty sa_mask and no flags: the *)
(* signal being handled is blocked while its handler runs, the other one   *)
(* is not.                                                                 *)

Top == hstack[Len(hstack)]
Blocked == {hstack[i].sig : i \in 1..Len(hstack)}
SetTop(h) == [hstack EXCEPT ![Len(hstack)].hpc = h]

\* variant: the handler is installed whether or not -s was given
CatchesAlways(s) == s \in Signals

\* the disposition of s is wdt_magic_close
Catches(s) == s \in installed

\* default disposition of SIGINT and SIGTERM: the process is terminated
SignalDefault(s) ==
    /\ Alive
    /\ s \notin Blocked
    /\ ~Catches(s)
    /\ pc' = "killed"
    /\ delivered' = delivered \cup {s}
    /\ UNCHANGED <<fd, verbose, timeout, real_timeout, period,
                   background, ret, installed, kGiven, kValue,
                   status, logged, hstack, caught>>
    /\ UNCHANGED <<devVars, clockVars>>
    /\ UNCHANGED pid

\* the kernel starts wdt_magic_close(s) on top of whatever was running
SignalCaught(s) ==
    /\ Alive
    /\ s \notin Blocked
    /\ Catches(s)
    /\ hstack' = Append(hstack, [sig |-> s, hpc |-> "check"])
    /\ delivered' = delivered \cup {s}
    /\ caught' = IF caught.at = "none"
                  THEN [at |-> pc, fd |-> fd, len |-> Len(devlog)]
                  ELSE caught
    /\ UNCHANGED <<mainVars, status, logged>>
    /\ UNCHANGED <<devVars, clockVars>>

----------------------------------------------------------------------------
(* wdt_magic_close, lines 88-96 *)

HandlerRuns == Alive /\ hstack # <<>>

\* variant: the test is inverted
FdIsUnset(v) == v = -1

\* if (fd != -1), then DEBUG("Safe exit, ...")
FdIsSet(v) == v # -1

HCheck ==
    /\ HandlerRuns /\ Top.hpc = "check"
    /\ IF FdIsSet(fd)
       THEN /\ logged' = DEBUG(logged, "safe_exit")
            /\ hstack' = SetTop("write")
       ELSE /\ logged' = logged
            /\ hstack' = SetTop("exit")
    /\ UNCHANGED <<mainVars, status, delivered, caught>>
    /\ UNCHANGED <<devVars, clockVars>>

\* write(fd, "V", 1): fails with EBADF when fd was closed
HWrite ==
    /\ HandlerRuns /\ Top.hpc = "write"
    /\ IF openHandles > 0
       THEN /\ magicWritten' = TRUE
            /\ devlog' = Append(devlog, "magic")
       ELSE /\ magicWritten' = magicWritten
            /\ devlog' = Append(devlog, "write_ebadf")
    /\ hstack' = SetTop("close")
    /\ UNCHANGED <<mainVars, status, logged, delivered, caught, openHandles,
                   closedOnce, hwTimeout, timerArmed>>
    /\ UNCHANGED clockVars

\* close(fd): the driver stops the timer when the magic byte came first
HClose ==
    /\ HandlerRuns /\ Top.hpc = "close"
    /\ IF openHandles > 0
       THEN /\ openHandles' = openHandles - 1
            /\ closedOnce' = TRUE
            /\ timerArmed' = (timerArmed /\ ~magicWritten)
            /\ devlog' = Append(devlog, "close")
       ELSE /\ devlog' = Append(devlog, "close_ebadf")
            /\ UNCHANGED <<openHandles, closedOnce, timerArmed>>
    /\ hstack' = SetTop("exit")
    /\ UNCHANGED <<mainVars, status, logged, delivered, caught, hwTimeout,
                   magicWritten>>
    /\ UNCHANGED clockVars

\* variant: the handler returns to the interrupted code instead of exiting
HReturn ==
    /\ HandlerRuns /\ Top.hpc = "exit"
    /\ hstack' = SubSeq(hstack, 1, Len(hstack) - 1)
    /\ UNCHANGED <<mainVars, status, logged, delivered, caught>>
    /\ UNCHANGED <<devVars, clockVars>>

\* exit(0)
HExit ==
    /\ HandlerRuns /\ Top.hpc = "exit"
    /\ Exit(0)
    /\ UNCHANGED <<fd, verbose, timeout, real_timeout, period,
                   background, ret, installed, kGiven, kValue,
                   logged>>
    /\ UNCHANGED <<devVars, clockVars, sigVars>>
    /\ UNCHANGED pid

----------------------------------------------------------------------------
Next ==
    \/ OptForeground
    \/ OptTimeout
    \/ OptInterval
    \/ OptSafeExit
    \/ SetupTerm
    \/ OptVersion
    \/ OptVerbose
    \/ OptHelp
    \/ OptUnknown
    \/ OptEnd
    \/ Background
    \/ OpenDevice
    \/ StoreFd
    \/ CheckFd
    \/ wdt_set_timeout
    \/ wdt_get_timeout
    \/ MarginCheck
    \/ DerivePeriod
    \/ wdt_kick
    \/ sleep
    \/ \E s \in Signals : SignalDefault(s)
    \/ \E s \in Signals : SignalCaught(s)
    \/ HCheck
    \/ HWrite
    \/ HClose
    \/ HExit

Spec == Init /\ [][Next]_vars

\* The process keeps executing the handler it is in.
HandlerStep == HCheck \/ HWrite \/ HClose \/ HExit

FairSpec == Spec /\ WF_vars(HandlerStep)

----------------------------------------------------------------------------
(* Vocabulary of the properties *)

Issued(op) == \E i \in 1..Len(devlog) : devlog[i] = op
Count(op) == Cardinality({i \in 1..Len(devlog) : devlog[i] = op})

\* the disable sequence: magic byte written, then the handle closed
Disabled == Issued("magic") /\ Issued("close")

\* the run reached the kick loop
InLoop == pc \in {"kick", "sleep"} \/ kicks > 0

\* the shutdown handler has started
HandlerBegan == caught.at # "none"

\* requests issued since the first handler started
SinceHandler == {devlog[i] : i \in (caught.len + 1)..Len(devlog)}

HandlerOps == {"magic", "close", "write_ebadf", "close_ebadf"}

----------------------------------------------------------------------------
(* C1: the disable sequence is performed if and only if safe-exit was      *)
(* armed and SIGINT or SIGTERM was delivered.  As stated: a process that   *)
(* has exited performed the disable sequence exactly when the handler ran. *)
C1_DisableIffHandlerRan ==
    pc = "exited" => (Disabled <=> HandlerBegan)

(* C1, amended: the disable sequence is performed if and only if the       *)
(* handler was started by a signal delivered while fd held the descriptor  *)
(* (fd != -1); the magic byte and the close are never issued otherwise,    *)
(* and a process that ends any other way after opening the device leaves   *)
(* its handle open and the timer armed.                                    *)
C1_DisableIffCaughtWithFd ==
    /\ (Issued("magic") \/ Issued("close")) =>
          (HandlerBegan /\ caught.fd # -1)
    /\ ~Alive => (Disabled <=> (HandlerBegan /\ caught.fd # -1))
    /\ (~Alive /\ ~(HandlerBegan /\ caught.fd # -1) /\ Issued("open")) =>
          (openHandles = 1 /\ timerArmed /\ ~magicWritten)

C1_Witness ==
    /\ pc = "exited" /\ status = 0
    /\ HandlerBegan /\ caught.fd # -1
    /\ Disabled /\ ~timerArmed

----------------------------------------------------------------------------
(* C2: in the kick loop with effective interval I, no gap between two      *)
(* consecutive kicks exceeds I (kicks come at 0, I, 2I, ...).              *)
C2_GapWithinInterval ==
    kicks >= 2 => TimeLeqInt(gap, period)

----------------------------------------------------------------------------
----------------------------------------------------------------------------
(* C4: with an explicit interval K and a known negotiated timeout T,       *)
(* K >= T, the margin warning is logged exactly once and the effective     *)
(* interval is K.                                                          *)
C4_WarnOnceKeepInterval ==
    (InLoop /\ kGiven /\ real_timeout >= 0 /\ kValue >= real_timeout) =>
        /\ logged["margin_warning"] = 1
        /\ period = kValue

C4_Witness ==
    /\ kicks >= 1 /\ kGiven
    /\ real_timeout >= 0 /\ kValue = real_timeout

----------------------------------------------------------------------------
----------------------------------------------------------------------------
(* C6: if opening the device fails, the process exits with a non-zero      *)
(* status.  As stated: a process that exited after a failed open has a     *)
(* status other than 0.                                                    *)
C6_OpenFailureExitsNonZero ==
    (Issued("open_failed") /\ pc = "exited") => status # 0

(* C6, amended: if opening the device fails, no set-timeout, get-timeout   *)
(* or kick request is ever issued and the open is not retried; the process *)
(* exits with status 1, unless SIGINT or SIGTERM is delivered before that  *)
(* exit, in which case it dies from the signal or, with safe-exit armed,   *)
(* the handler exits with status 0.                                        *)
C6_OpenFailureStopsStartup ==
    Issued("open_failed") =>
        /\ devlog = <<"open_failed">>
        /\ pc \in {"store_fd", "check_fd", "exited", "killed"}
        /\ pc = "exited" =>
              \/ status = 1 /\ ~HandlerBegan
              \/ status = 0 /\ HandlerBegan

C6_Witness ==
    /\ Issued("open_failed")
    /\ pc = "exited" /\ status = 1
    /\ logged["open_failed"] = 1

----------------------------------------------------------------------------
(* C7: with safe-exit armed and the scheduler in its timed wait, a SIGINT  *)
(* or SIGTERM is followed by the magic byte, then the close, then exit     *)
(* with status 0, and no kick is issued after the signal.                  *)
C7_SafeExitFromSleep ==
    /\ [](caught.at = "sleep" =>
            /\ SinceHandler \subseteq HandlerOps
            /\ \A i \in 1..Len(devlog) :
                  devlog[i] = "close" =>
                      \E j \in 1..(i - 1) : devlog[j] = "magic"
            /\ ~Alive => (pc = "exited" /\ status = 0 /\ Disabled))
    /\ (caught.at = "sleep") ~> (pc = "exited")

C7_Witness ==
    /\ caught.at = "sleep"
    /\ pc = "exited" /\ status = 0
    /\ Disabled /\ kicks >= 1

----------------------------------------------------------------------------
(* C8: the process holds at most one open handle on the device, and after  *)
(* a close no open is issued again.                                        *)
C8_SingleHandle ==
    /\ openHandles <= 1
    /\ Count("open") + Count("open_failed") <= 1
    /\ \A i \in 1..Len(devlog) :
          devlog[i] \in {"close", "close_ebadf"} =>
              \A j \in (i + 1)..Len(devlog) :
                  devlog[j] \notin {"open", "open_failed"}

C8_Witness ==
    /\ closedOnce /\ openHandles = 0
    /\ pc = "exited"

----------------------------------------------------------------------------
(* C9: when safe-exit was never armed, the magic byte is never written and *)
(* the handle is never closed; SIGINT or SIGTERM terminates the process,   *)
(* the device left open and the timer armed.                               *)
C9_UnarmedNeverDisables ==
    installed = {} =>
        /\ ~Issued("magic") /\ ~Issued("close")
        /\ hstack = <<>>
        /\ delivered # {} => pc = "killed"
        /\ (pc = "killed" /\ Issued("open")) =>
              (openHandles = 1 /\ timerArmed)

C9_Witness ==
    /\ installed = {} /\ pc = "killed"
    /\ openHandles = 1 /\ timerArmed /\ kicks >= 1

----------------------------------------------------------------------------
(* C10: once the shutdown handler has started, the interrupted main flow   *)
(* never resumes: no open, set-timeout, get-timeout or kick is issued      *)
(* after it, a handler never returns, and the process then ends.           *)
C10_HandlerNeverReturns ==
    /\ [](HandlerBegan =>
            /\ SinceHandler \subseteq HandlerOps
            /\ Alive => hstack # <<>>)
    /\ [][hstack # <<>> =>
            /\ Len(hstack') >= Len(hstack)
            /\ <<fd, ret, installed, timeout, real_timeout, period, now,
                 kicks>>' =
               <<fd, ret, installed, timeout, real_timeout, period, now,
                 kicks>>
            /\ pc' \in {pc, "exited", "killed"}]_vars
    /\ HandlerBegan ~> ~Alive

C10_Witness ==
    /\ HandlerBegan /\ caught.at = "kick"
    /\ pc = "exited" /\ Len(hstack) = 2

----------------------------------------------------------------------------
(* C11: the shutdown handler only writes to the handle, closes it and      *)
(* exits with status 0; it logs nothing, in verbose mode too.              *)
C11_HandlerDoesNotLog ==
    /\ logged["safe_exit"] = 0
    /\ (HandlerBegan /\ pc = "exited") => status = 0

----------------------------------------------------------------------------
(* C12: whenever an explicit interval K was given with -k, the effective   *)
(* interval of the kick loop is K, for every integer K and every           *)
(* negotiated timeout.                                                     *)
C12_ExplicitIntervalKept ==
    (InLoop /\ kGiven) => period = kValue

----------------------------------------------------------------------------
(* C13: a failed set-timeout is not fatal: whatever its outcome, the next  *)
(* request is get-timeout, the main flow never exits because of it, and    *)
(* the derived interval comes from the value read back (half of it, or the *)
(* default when the read fails), never from the requested timeout.         *)
C13_SetTimeoutNotFatal ==
    /\ (Issued("set") /\ ~Issued("get")) =>
          \/ pc = "get_timeout"
          \/ pc = "killed"
          \/ pc = "exited" /\ HandlerBegan
    /\ (Issued("set") /\ pc = "exited") => (HandlerBegan /\ status = 0)
    /\ InLoop => Issued("get")
    /\ (InLoop /\ ~kGiven) =>
          IF real_timeout < 0
          THEN 2 * period = WDT_TIMEOUT_DEFAULT
          ELSE /\ real_timeout = hwTimeout
               /\ 2 * period <= hwTimeout
               /\ hwTimeout < 2 * period + 2

C13_Witness ==
    /\ kicks >= 1 /\ ~kGiven
    /\ logged["set_failed"] = 1
    /\ real_timeout >= 0 /\ real_timeout # timeout

----------------------------------------------------------------------------
(* C14: in background mode the device is opened only after daemonize() has *)
(* returned, and only in the daemon: the parent and the failed call exit   *)
(* without any request on the device, and no handle is open when the       *)
(* process splits.                                                         *)
C14_OpenAfterBackgrounding ==
    /\ pc \in {"getopt", "setup_term", "background"} =>
          (devlog = <<>> /\ openHandles = 0)
    /\ (background /\ devlog # <<>>) => pid = 0
    /\ pid # 0 => (devlog = <<>> /\ openHandles = 0 /\ pc = "exited")

C14_Witness ==
    /\ background /\ pid = 0
    /\ openHandles = 1 /\ kicks >= 1

----------------------------------------------------------------------------
(* C15: a run that reaches the kick loop has issued open, set-timeout and  *)
(* get-timeout in this order, each once, and none of them again after the  *)
(* first kick; no kick comes before get-timeout.                           *)
C15_StartupOrder ==
    /\ InLoop =>
          /\ Len(devlog) >= 3
          /\ SubSeq(devlog, 1, 3) = <<"open", "set", "get">>
          /\ \A i \in 4..Len(devlog) :
                devlog[i] \notin {"open", "open_failed", "set", "get"}
    /\ \A i \in 1..Len(devlog) :
          devlog[i] = "kick" => \E j \in 1..(i - 1) : devlog[j] = "get"

C15_Witness ==
    /\ kicks >= 2 /\ Alive
    /\ Count("kick") = kicks

----------------------------------------------------------------------------
(* C16: whether a kick succeeds or fails, the loop goes on, no extra kick  *)
(* is issued, and the next kick comes exactly one effective interval       *)
(* later, the interval unchanged.                                          *)
C16_KickFailureKeepsSchedule ==
    /\ kicks >= 2 => gap = Time(0, period)
    /\ (kicks >= 1 /\ MainRuns) => pc \in {"kick", "sleep"}
    /\ (InLoop /\ kGiven /\ kValue # -1) => period = kValue

----------------------------------------------------------------------------
(* C17: with safe-exit armed, the shutdown handler starts only while the   *)
(* scheduler is in its timed wait.  As stated: whenever a handler has      *)
(* started, the main flow was in sleep().                                  *)
C17_HandlerOnlyInSleep ==
    HandlerBegan => caught.at = "sleep"

(* C17, amended: the shutdown handler starts only for a signal whose       *)
(* handler sigaction() has installed, that is after -s was reached in      *)
(* option parsing; from then on it can start at any point of the main      *)
(* flow: the rest of option parsing, backgrounding, open, timeout          *)
(* negotiation, a kick request or the timed wait.                          *)
C17_HandlerOnlyOnceInstalled ==
    /\ \A i \in 1..Len(hstack) : hstack[i].sig \in installed
    /\ HandlerBegan =>
          /\ hstack # <<>>
          /\ "SIGINT" \in installed
          /\ caught.at \notin {"none", "exited", "killed"}

C17_Witness ==
    /\ HandlerBegan /\ caught.at = "store_fd"
    /\ openHandles = 1 /\ fd = -1

----------------------------------------------------------------------------
(* C18: under any interleaving of SIGINT and SIGTERM the disable sequence  *)
(* runs at most once and the handle is never used after it was closed.     *)
C18_DisableAtMostOnce ==
    /\ Count("magic") <= 1
    /\ Count("close") <= 1
    /\ ~Issued("write_ebadf")
    /\ ~Issued("close_ebadf")

----------------------------------------------------------------------------
(* C19: when a signal starts the armed handler while the process holds an  *)
(* open handle on the device, the magic byte is written before the process *)
(* exits: the handler never exits with the timer still armed.              *)
C19_OpenHandleIsDisabled ==
    (/\ pc = "exited" /\ HandlerBegan
     /\ caught.len >= 1 /\ devlog[1] = "open") =>
        (Issued("magic") /\ ~timerArmed)

----------------------------------------------------------------------------
(* C20: in a run that reached the kick loop, the margin warning was logged *)
(* if and only if the negotiated timeout T is known and the effective      *)
(* interval I, explicit or derived, is at least T.                         *)
C20_MarginWarningIffUnsafe ==
    InLoop =>
        (logged["margin_warning"] >= 1 <=>
            (real_timeout >= 0 /\ period >= real_timeout))

====
